---- MODULE Spec2Model ----
(***************************************************************************)
(* Content Selection Engine of the LinkedIn content pipeline:              *)
(* processor.deduplicate, calendar_tracker (history checks),               *)
(* generator.select_stories / assign_personas and main.run_pipeline.       *)
(*                                                                         *)
(* Ratios and thresholds are kept as integer percentages (0.65 -> 65);     *)
(* day-of-week multipliers as integer tenths (1.5 -> 15).                  *)
(***************************************************************************)
EXTENDS Integers, Sequences, FiniteSets, TLC

SeqsUpTo(S, n) == UNION {[1..k -> S] : k \in 0..n}

Range(s) == {s[i] : i \in DOMAIN s}

\* ---------------------------------------------------------------- config.py
DEDUP_THRESHOLD == 65
BORDERLINE_BAND == 15
CONTENT_SIM_CUTOFF == 60
DRAFT_COUNT == 5
MAX_SAME_CATEGORY_STREAK == 2
MAX_SAME_PERSONA_STREAK == 3
SOURCE_COOLDOWN_POSTS == 3
HISTORY_LOOKBACK_DAYS == 7

\* The configured categories, in declared order.
CATEGORIES ==
    <<"AI", "Sales", "AI in Sales", "AI in eCommerce", "eCommerce", "Email Marketing",
      "Behavioural Science">>

\* Personas in declared order, each with its preferred categories in order.
PersonaNames ==
    <<"The eCommerce Observer", "The Honest AI User", "The Sales Realist", "The Human">>

PERSONAS ==
    [p \in Range(PersonaNames) |->
        CASE p = "The eCommerce Observer" -> <<"eCommerce", "AI in eCommerce", "Email Marketing">>
          [] p = "The Honest AI User" -> <<"AI", "AI in Sales", "AI in eCommerce">>
          [] p = "The Sales Realist" -> <<"Sales", "AI in Sales">>
          [] p = "The Human" -> <<"Behavioural Science", "Sales", "eCommerce">>]

\* DAY_TOPIC_WEIGHTS in tenths; weights.get(category, 1.0) of
\* DAY_TOPIC_WEIGHTS.get(today, {}).
DAY_TOPIC_WEIGHTS(day, category) ==
    CASE day = 0 /\ category = "AI in Sales" -> 15
      [] day = 0 /\ category = "Sales" -> 13
      [] day = 1 /\ category = "AI" -> 15
      [] day = 1 /\ category = "AI in eCommerce" -> 13
      [] day = 2 /\ category = "eCommerce" -> 15
      [] day = 2 /\ category = "Email Marketing" -> 13
      [] day = 3 /\ category = "Behavioural Science" -> 15
      [] day = 3 /\ category = "AI" -> 12
      [] day = 4 /\ category = "AI in Sales" -> 13
      [] day = 4 /\ category = "Behavioural Science" -> 15
      [] OTHER -> 10

\* ---------------------------------------------------------------- bounds
MaxArticles == 3
MaxHistory == 4
MaxCandidates == 4
MaxSelectHistory == 2
MaxCount == 3
MaxBatch == 5
MaxFetched == 2
MaxPersonaHistory == 3
MaxDrafted == 3
MaxReportHistory == 3
MaxRunCandidates == 3
MaxRunHistory == 3

\* ---------------------------------------------------------------- domains
Titles == {"t1", "T1", "t2"}
\* <<content, summary>> of an article: no text, text in content, text in summary only
Bodies == {<<"", "">>, <<"c1", "">>, <<"", "C2">>}
TitleRatios == {40, 60, 100}
ContentRatios == {40, 60}
Thresholds == {0, DEDUP_THRESHOLD, 100}


VARIABLES
    pc,          \* position of the run
    articles,    \* the article list handed to the operation
    threshold,   \* the dedup title threshold in force
    ratio,       \* SequenceMatcher(None, a, b).ratio() as a table over <<a, b>>
    unique,      \* result of deduplicate(articles)
    unique2,     \* result of deduplicate(unique)
    history,     \* the history document as loaded: [kind, posts]
    query,       \* the last constraint check made: [fn, arg, n, res]
    count,       \* the target count handed to select_stories
    weekday,     \* datetime.now().weekday() of the run
    strict,      \* `selected` at the end of the first loop of select_stories
    selected,    \* result of select_stories
    assignments, \* result of assign_personas
    historyFile, \* the history document on disk (post_history.json)
    err,         \* the exception that ended the run, "none" while there is none
    args,        \* the flags of the run: [dry_run, feeds_only, email_only, no_email]
    drafting,    \* outcome of each generate_single_draft call: TRUE when it returned
    drafts,      \* result of generate_drafts: [article, persona] per draft
    effects,     \* what the run did to the outside world, in order
    delivery,    \* what output_drafts and send_daily_digest came to: [docs, email]
    loaded       \* the value load_history returned to the run

vars == <<pc, articles, threshold, ratio, unique, unique2, history, query,
          count, weekday, strict, selected, assignments, historyFile, err,
          args, drafting, drafts, effects, delivery, loaded>>

dedupVars == <<threshold, ratio, unique, unique2>>
historyVars == <<history, query>>
selectVars == <<count, weekday, strict, selected, assignments>>
draftVars == <<drafting, drafts>>
pipeVars == <<args, effects, delivery, loaded>>
runVars == <<historyFile, err, draftVars, pipeVars>>

\* ---------------------------------------------------------------- processor.py
\* str.lower() on the strings of the model.
lower(s) == CASE s = "T1" -> "t1" [] s = "T2" -> "t2" [] s = "C1" -> "c1"
              [] s = "C2" -> "c2" [] OTHER -> s

title_similarity(a, b) == ratio[<<lower(a), lower(b)>>]

\* strip_html on the strings of the model: tags go, white space is trimmed.
strip_html(text) == CASE text = "<b>t1</b>" -> "t1"
                      [] text = " t2 " -> "t2"
                      [] text = "<br>" -> ""
                      [] OTHER -> text

\* strip_html(article.get("content", "") or article.get("summary", ""))[:200].lower();
\* the strings of the model are shorter than the cut.
content_snippet(article) ==
    lower(strip_html(IF article.content # "" THEN article.content ELSE article.summary))

\* Variant of the duplicate test with a strict title comparison.
is_dup_of_strict(article, kept) ==
    LET sim == title_similarity(article.title, kept.title) IN
    \/ sim > threshold
    \/ /\ sim >= threshold - BORDERLINE_BAND
       /\ content_snippet(article) # ""
       /\ content_snippet(kept) # ""
       /\ ratio[<<content_snippet(article), content_snippet(kept)>>] >= CONTENT_SIM_CUTOFF

\* One round of the inner loop of deduplicate: is `article` a duplicate of `kept`?
is_dup_of(article, kept) ==
    LET sim == title_similarity(article.title, kept.title) IN
    \/ sim >= threshold
    \/ /\ sim >= threshold - BORDERLINE_BAND
       /\ content_snippet(article) # ""
       /\ content_snippet(kept) # ""
       /\ ratio[<<content_snippet(article), content_snippet(kept)>>] >= CONTENT_SIM_CUTOFF

\* Last-seen-wins variant of the scan: a duplicate takes the place of the kept
\* article it matches.
RECURSIVE dedup_scan_last_wins(_, _, _)
dedup_scan_last_wins(L, i, kept) ==
    IF i > Len(L) THEN kept
    ELSE IF \E k \in Range(kept) : is_dup_of(L[i], L[k])
         THEN LET m == CHOOSE j \in DOMAIN kept :
                          /\ is_dup_of(L[i], L[kept[j]])
                          /\ \A h \in 1..(j - 1) : ~is_dup_of(L[i], L[kept[h]])
              IN dedup_scan_last_wins(L, i + 1, [kept EXCEPT ![m] = i])
         ELSE dedup_scan_last_wins(L, i + 1, Append(kept, i))

\* Variant of the scan that compares an article with the latest kept one only.
RECURSIVE dedup_scan_latest_only(_, _, _)
dedup_scan_latest_only(L, i, kept) ==
    IF i > Len(L) THEN kept
    ELSE IF kept # <<>> /\ is_dup_of(L[i], L[kept[Len(kept)]])
         THEN dedup_scan_latest_only(L, i + 1, kept)
         ELSE dedup_scan_latest_only(L, i + 1, Append(kept, i))

\* Positions of `L` that deduplicate keeps, scanning from position i with the
\* positions kept so far.
RECURSIVE dedup_scan(_, _, _)
dedup_scan(L, i, kept) ==
    IF i > Len(L) THEN kept
    ELSE IF \E k \in Range(kept) : is_dup_of(L[i], L[k])
         THEN dedup_scan(L, i + 1, kept)
         ELSE dedup_scan(L, i + 1, Append(kept, i))

kept_positions(L) == dedup_scan(L, 1, <<>>)

deduplicate(L) ==
    IF L = <<>> THEN L
    ELSE LET idx == kept_positions(L) IN [j \in 1..Len(idx) |-> L[idx[j]]]

\* ---------------------------------------------------------------- calendar_tracker.py
\* The value load_history returns for a well-formed document: {"posts": [...]}.
History(posts) == [kind |-> "ok", posts |-> posts]

EmptyHistory == History(<<>>)

NoQuery == [fn |-> "none", arg |-> "", n |-> 0, res |-> FALSE]

\* One history entry, as record_post writes it.
Post(d, cat, per, src) ==
    [date |-> d, category |-> cat, persona |-> per, source |-> src, angle |-> ""]

\* Python's order on the date strings of the model: "" (no date) is the least.
DateOrd(d) == CASE d = "" -> 0
                [] d = "2026-11-02" -> 1
                [] d = "2026-11-03" -> 2
                [] d = "2026-11-04" -> 3
                [] d = "2026-11-05" -> 4
                [] d = "2026-11-07" -> 5
                [] d = "2026-11-09" -> 6

\* Variant of the sort in which equal keys come out in reverse stored order.
RECURSIVE stable_desc_ties_reversed(_, _)
stable_desc_ties_reversed(keys, left) ==
    IF left = {} THEN <<>>
    ELSE LET m == CHOOSE i \in left :
                    \A j \in left : keys[j] < keys[i] \/ (keys[j] = keys[i] /\ i >= j)
         IN <<m>> \o stable_desc_ties_reversed(keys, left \ {m})

\* Python's stable sort with reverse=True over a sequence of integer keys:
\* the positions in descending key order, equal keys in their stored order.
RECURSIVE stable_desc(_, _)
stable_desc(keys, left) ==
    IF left = {} THEN <<>>
    ELSE LET m == CHOOSE i \in left :
                    \A j \in left : keys[j] < keys[i] \/ (keys[j] = keys[i] /\ i <= j)
         IN <<m>> \o stable_desc(keys, left \ {m})

sorted_desc(seq, keys) ==
    LET idx == stable_desc(keys, DOMAIN seq) IN [k \in 1..Len(seq) |-> seq[idx[k]]]

\* sorted(history["posts"], key=lambda p: p.get("date", ""), reverse=True)
sorted_by_date_desc(posts) ==
    sorted_desc(posts, [i \in DOMAIN posts |-> DateOrd(posts[i].date)])

Min(a, b) == IF a <= b THEN a ELSE b

get_last_n_posts(h, n) ==
    LET sorted_posts == sorted_by_date_desc(h.posts)
    IN SubSeq(sorted_posts, 1, Min(n, Len(sorted_posts)))

\* Variant in which the posts are sorted in place, as list.sort() would.
history_sorted_in_place(h) == [h EXCEPT !.posts = sorted_by_date_desc(@)]

\* The history after a call of get_last_n_posts, and so after each of the
\* three checks: sorted() builds a new list and the slice another one.
history_after_get_last_n_posts(h) == h

\* Variant of the category check that needs a full window, as the persona check does.
would_break_category_rule_full_window(h, category) ==
    LET recent == get_last_n_posts(h, MAX_SAME_CATEGORY_STREAK) IN
    IF Len(recent) < MAX_SAME_CATEGORY_STREAK THEN FALSE
    ELSE \A i \in DOMAIN recent : recent[i].category = category

would_break_category_rule(h, category) ==
    LET recent == get_last_n_posts(h, MAX_SAME_CATEGORY_STREAK) IN
    IF recent # <<>> THEN \A i \in DOMAIN recent : recent[i].category = category
    ELSE FALSE

\* Variant of the persona check without the length test.
would_break_persona_rule_no_length(h, persona) ==
    LET recent == get_last_n_posts(h, MAX_SAME_PERSONA_STREAK) IN
    \A i \in DOMAIN recent : recent[i].persona = persona

would_break_persona_rule(h, persona) ==
    LET recent == get_last_n_posts(h, MAX_SAME_PERSONA_STREAK) IN
    IF Len(recent) < MAX_SAME_PERSONA_STREAK THEN FALSE
    ELSE \A i \in DOMAIN recent : recent[i].persona = persona

\* Variant of the cooldown check that looks at the whole history.
is_source_on_cooldown_whole_history(h, source) ==
    \E i \in DOMAIN h.posts : h.posts[i].source = source

is_source_on_cooldown(h, source) ==
    LET recent == get_last_n_posts(h, SOURCE_COOLDOWN_POSTS) IN
    \E i \in DOMAIN recent : recent[i].source = source

\* Day number of the calendar dates of the model (days of November 2026).
DayNo(d) == CASE d = "2026-11-02" -> 2
              [] d = "2026-11-03" -> 3
              [] d = "2026-11-04" -> 4
              [] d = "2026-11-05" -> 5
              [] d = "2026-11-07" -> 7
              [] d = "2026-11-09" -> 9
              [] d = "2026-11-10" -> 10

\* ISO strings as <<day, tail>> pairs that compare as the strings do: a stored
\* date "YYYY-MM-DD" has no tail, a datetime.isoformat() has a time of day
\* after the same ten characters and so is the greater of the two; "" is the
\* least string.
IsoDate(d) == IF d = "" THEN <<-1000, 0>> ELSE <<DayNo(d), 0>>

\* (datetime.now() - timedelta(days=days)).isoformat() for a run on `now`.
cutoff(now, days) == <<DayNo(now) - days, 1>>

\* Python's >= on two ISO strings.
IsoGE(a, b) == a[1] > b[1] \/ (a[1] = b[1] /\ a[2] >= b[2])

RECURSIVE filter_recent(_, _, _)
filter_recent(posts, i, c) ==
    IF i > Len(posts) THEN <<>>
    ELSE IF IsoGE(IsoDate(posts[i].date), c)
           THEN <<posts[i]>> \o filter_recent(posts, i + 1, c)
           ELSE filter_recent(posts, i + 1, c)

\* Variant of get_recent_posts without the date test.
get_recent_posts_no_cutoff(h, now, days) == h.posts

\* get_recent_posts(history, days) called on the day `now`.
get_recent_posts(h, now, days) == filter_recent(h.posts, 1, cutoff(now, days))

\* Counter(...)[cat] over the posts from position i.
RECURSIVE counter_get(_, _, _)
counter_get(recent, i, cat) ==
    IF i > Len(recent) THEN 0
    ELSE (IF recent[i].category = cat THEN 1 ELSE 0) + counter_get(recent, i + 1, cat)

\* get_category_distribution(history): {cat: counts.get(cat, 0) for cat in CATEGORIES}
get_category_distribution(h, now) ==
    LET recent == get_recent_posts(h, now, HISTORY_LOOKBACK_DAYS)
    IN [cat \in Range(CATEGORIES) |-> counter_get(recent, 1, cat)]

\* load_history: the parsed document, or {"posts": []} when the file is
\* missing or is not JSON.
load_history(file) == IF file.state = "json" THEN file.value ELSE EmptyHistory

\* save_history: the document on disk becomes the JSON text of `h`.
save_history(h) == [state |-> "json", value |-> h]

\* record_post: history["posts"].append({...}); the articles of the model carry
\* no one_line_summary, so the angle recorded is "".
record_post(h, date, category, persona, source) ==
    [h EXCEPT !.posts = Append(@, Post(date, category, persona, source))]

\* What history["posts"] and sorted(...) in get_last_n_posts raise on the
\* loaded value: "none" for a document with a list of posts.
get_last_n_posts_error(h) ==
    CASE h.kind = "no_posts_key" -> "KeyError"
      [] h.kind = "not_object" -> "TypeError"
      [] h.kind = "posts_not_list" -> "TypeError"
      [] OTHER -> "none"

\* ---------------------------------------------------------------- generator.py
\* Variant of the score without the day-of-week multiplier.
weighted_score_unweighted(article, day) == article.total_score * 10

\* base_score * multiplier, in tenths
weighted_score(article, day) == article.total_score * DAY_TOPIC_WEIGHTS(day, article.category)

\* `scored` after scored.sort(key=lambda x: x[1], reverse=True): the articles in
\* ranking order.
ranked(arts, day) ==
    sorted_desc(arts, [i \in DOMAIN arts |-> weighted_score(arts[i], day)])

\* Variant in which the weighted score is written to the article.
articles_with_weighted_score(arts, day) ==
    [i \in DOMAIN arts |-> [arts[i] EXCEPT !.total_score = weighted_score(arts[i], day) \div 10]]

\* The candidate list after a call of select_stories: the weighted scores live
\* in the tuples of the local list `scored`, which is the list that is sorted.
articles_after_select_stories(arts, day) == arts

\* Variant of the first loop without the category-diversity test.
RECURSIVE strict_scan_no_diversity(_, _, _, _, _, _)
strict_scan_no_diversity(scored, i, sel, used, h, n) ==
    IF i > Len(scored) \/ Len(sel) >= n THEN sel
    ELSE LET article == scored[i] IN
         IF would_break_category_rule(h, article.category)
           THEN strict_scan_no_diversity(scored, i + 1, sel, used, h, n)
         ELSE IF is_source_on_cooldown(h, article.source)
           THEN strict_scan_no_diversity(scored, i + 1, sel, used, h, n)
         ELSE strict_scan_no_diversity(scored, i + 1, Append(sel, article),
                                       used \cup {article.category}, h, n)

\* Variant of the first loop without the category-streak test.
RECURSIVE strict_scan_no_streak(_, _, _, _, _, _)
strict_scan_no_streak(scored, i, sel, used, h, n) ==
    IF i > Len(scored) \/ Len(sel) >= n THEN sel
    ELSE LET article == scored[i] IN
         IF article.category \in used /\ Len(sel) < n - 1
           THEN strict_scan_no_streak(scored, i + 1, sel, used, h, n)
         ELSE IF is_source_on_cooldown(h, article.source)
           THEN strict_scan_no_streak(scored, i + 1, sel, used, h, n)
         ELSE strict_scan_no_streak(scored, i + 1, Append(sel, article),
                                    used \cup {article.category}, h, n)

\* Variant of the first loop whose diversity test has no exception for the
\* last slot.
RECURSIVE strict_scan_no_valve(_, _, _, _, _, _)
strict_scan_no_valve(scored, i, sel, used, h, n) ==
    IF i > Len(scored) \/ Len(sel) >= n THEN sel
    ELSE LET article == scored[i] IN
         IF article.category \in used
           THEN strict_scan_no_valve(scored, i + 1, sel, used, h, n)
         ELSE IF would_break_category_rule(h, article.category)
           THEN strict_scan_no_valve(scored, i + 1, sel, used, h, n)
         ELSE IF is_source_on_cooldown(h, article.source)
           THEN strict_scan_no_valve(scored, i + 1, sel, used, h, n)
         ELSE strict_scan_no_valve(scored, i + 1, Append(sel, article),
                                   used \cup {article.category}, h, n)

\* The first loop of select_stories from position i of `scored`, with the
\* articles selected and the categories used so far.
RECURSIVE strict_scan(_, _, _, _, _, _)
strict_scan(scored, i, sel, used, h, n) ==
    IF i > Len(scored) \/ Len(sel) >= n THEN sel
    ELSE LET article == scored[i] IN
         IF article.category \in used /\ Len(sel) < n - 1
           THEN strict_scan(scored, i + 1, sel, used, h, n)
         ELSE IF would_break_category_rule(h, article.category)
           THEN strict_scan(scored, i + 1, sel, used, h, n)
         ELSE IF is_source_on_cooldown(h, article.source)
           THEN strict_scan(scored, i + 1, sel, used, h, n)
         ELSE strict_scan(scored, i + 1, Append(sel, article),
                          used \cup {article.category}, h, n)

strict_pass(arts, h, n, day) == strict_scan(ranked(arts, day), 1, <<>>, {}, h, n)

\* Variant of the second loop that adds nothing.
relaxed_scan_none(scored, i, sel, n) == sel

\* Variant of the second loop without the membership test.
RECURSIVE relaxed_scan_no_membership(_, _, _, _)
relaxed_scan_no_membership(scored, i, sel, n) ==
    IF i > Len(scored) \/ Len(sel) >= n THEN sel
    ELSE relaxed_scan_no_membership(scored, i + 1, Append(sel, scored[i]), n)

\* The second loop of select_stories from position i of `scored`.
RECURSIVE relaxed_scan(_, _, _, _)
relaxed_scan(scored, i, sel, n) ==
    IF i > Len(scored) \/ Len(sel) >= n THEN sel
    ELSE IF scored[i] \notin Range(sel)
           THEN relaxed_scan(scored, i + 1, Append(sel, scored[i]), n)
           ELSE relaxed_scan(scored, i + 1, sel, n)

\* select_stories(articles, history, count) on weekday `day`, for count >= 0
select_stories(arts, h, n, day) ==
    LET scored == ranked(arts, day)
        first == strict_scan(scored, 1, <<>>, {}, h, n)
        sel == IF Len(first) < n THEN relaxed_scan(scored, 1, first, n) ELSE first
    IN SubSeq(sel, 1, Min(n, Len(sel)))

\* Category affinity of a persona: 3 for its first preferred category, 2 for
\* another preferred category, 0 otherwise.
affinity(persona, category) ==
    LET preferred == PERSONAS[persona] IN
    IF category \in Range(preferred)
      THEN (IF preferred[1] = category THEN 3 ELSE 2)
      ELSE 0

\* Variant of the inner loop in which a later persona takes a tie.
RECURSIVE best_scan_ties_to_later(_, _, _, _, _, _)
best_scan_ties_to_later(k, category, used, h, best_persona, best_score) ==
    IF k > Len(PersonaNames) THEN best_persona
    ELSE LET persona_name == PersonaNames[k] IN
         IF would_break_persona_rule(h, persona_name)
           THEN best_scan_ties_to_later(k + 1, category, used, h, best_persona, best_score)
         ELSE IF persona_name \in Range(used)
           THEN best_scan_ties_to_later(k + 1, category, used, h, best_persona, best_score)
         ELSE IF affinity(persona_name, category) >= best_score
           THEN best_scan_ties_to_later(k + 1, category, used, h, persona_name,
                                        affinity(persona_name, category))
         ELSE best_scan_ties_to_later(k + 1, category, used, h, best_persona, best_score)

\* Variant of the inner loop without the streak test.
RECURSIVE best_scan_no_streak_test(_, _, _, _, _, _)
best_scan_no_streak_test(k, category, used, h, best_persona, best_score) ==
    IF k > Len(PersonaNames) THEN best_persona
    ELSE LET persona_name == PersonaNames[k] IN
         IF persona_name \in Range(used)
           THEN best_scan_no_streak_test(k + 1, category, used, h, best_persona, best_score)
         ELSE IF affinity(persona_name, category) > best_score
           THEN best_scan_no_streak_test(k + 1, category, used, h, persona_name,
                                         affinity(persona_name, category))
         ELSE best_scan_no_streak_test(k + 1, category, used, h, best_persona, best_score)

\* The inner loop of assign_personas over PERSONAS from position k, with the
\* best persona and score so far; "None" while no persona qualified.
RECURSIVE best_scan(_, _, _, _, _, _)
best_scan(k, category, used, h, best_persona, best_score) ==
    IF k > Len(PersonaNames) THEN best_persona
    ELSE LET persona_name == PersonaNames[k] IN
         IF would_break_persona_rule(h, persona_name)
           THEN best_scan(k + 1, category, used, h, best_persona, best_score)
         ELSE IF persona_name \in Range(used)
           THEN best_scan(k + 1, category, used, h, best_persona, best_score)
         ELSE IF affinity(persona_name, category) > best_score
           THEN best_scan(k + 1, category, used, h, persona_name,
                          affinity(persona_name, category))
         ELSE best_scan(k + 1, category, used, h, best_persona, best_score)

\* Variant of the choice whose fallback goes straight to the first persona.
pick_persona_first_declared(category, used, h) ==
    LET best == best_scan(1, category, used, h, "None", -1) IN
    IF best # "None" THEN best ELSE PersonaNames[1]

\* Variant of the choice without the fallbacks.
pick_persona_no_fallback(category, used, h) ==
    best_scan(1, category, used, h, "None", -1)

\* The persona of one article, given the personas used so far in the batch.
pick_persona(category, used, h) ==
    LET best == best_scan(1, category, used, h, "None", -1)
        unused == {k \in DOMAIN PersonaNames : PersonaNames[k] \notin Range(used)}
    IN IF best # "None" THEN best
       ELSE IF unused # {} THEN PersonaNames[CHOOSE k \in unused : \A j \in unused : k <= j]
       ELSE PersonaNames[1]

RECURSIVE assign_scan(_, _, _, _)
assign_scan(arts, i, used, h) ==
    IF i > Len(arts) THEN used
    ELSE assign_scan(arts, i + 1, Append(used, pick_persona(arts[i].category, used, h)), h)

\* assign_personas(articles, history): `assignments` and `used_personas` hold
\* the same list.
assign_personas(arts, h) == assign_scan(arts, 1, <<>>, h)

\* The exception select_stories ends with: its first loop calls
\* would_break_category_rule for the first candidate whenever count >= 1.
select_stories_error(arts, h, n) ==
    IF arts # <<>> /\ n >= 1 THEN get_last_n_posts_error(h) ELSE "none"

\* process_articles: clean the three text fields, then deduplicate.
process_articles(arts) ==
    deduplicate([i \in DOMAIN arts |->
        [arts[i] EXCEPT !.title = strip_html(@),
                        !.summary = strip_html(@),
                        !.content = strip_html(@)]])

\* generate_drafts(articles, personas) from pair i of zip(articles, personas),
\* `ok[i]` telling whether generate_single_draft returns for pair i or raises;
\* a draft is the parsed text with the persona and the article it was made for.
RECURSIVE drafts_scan(_, _, _, _, _)
drafts_scan(arts, personas, ok, i, out) ==
    IF i > Min(Len(arts), Len(personas)) THEN out
    ELSE IF ok[i]
           THEN drafts_scan(arts, personas, ok, i + 1,
                            Append(out, [article |-> arts[i], persona |-> personas[i]]))
           ELSE drafts_scan(arts, personas, ok, i + 1, out)

\* Variant that gives the j-th draft the j-th persona of the batch.
generate_drafts_persona_by_position(arts, personas, ok) ==
    LET out == drafts_scan(arts, personas, ok, 1, <<>>)
    IN [j \in DOMAIN out |-> [out[j] EXCEPT !.persona = personas[j]]]

generate_drafts(arts, personas, ok) == drafts_scan(arts, personas, ok, 1, <<>>)

\* ---------------------------------------------------------------- output.py
\* What push_to_google_doc meets: the batchUpdate request succeeds ("pushed"),
\* the request raises ("request_failed"), there are no credentials or no
\* GOOGLE_DOC_ID ("not_configured"), or get_google_creds itself raises
\* ("creds_raise": it is called outside the try block).
PushOutcomes == {"pushed", "request_failed", "not_configured", "creds_raise"}

\* Variant of output_drafts that pushes in a dry run too.
output_drafts_ignores_dry_run(dry_run, push) ==
    CASE push = "pushed" -> <<"docs_request">>
      [] push = "request_failed" -> <<"docs_request", "markdown">>
      [] OTHER -> <<"markdown">>

\* Variant of output_drafts without the markdown fallback.
output_drafts_no_fallback(dry_run, push) ==
    IF dry_run \/ push = "not_configured" THEN <<>> ELSE <<"docs_request">>

\* The outside effects of output_drafts(drafts, category_dist, dry_run), in order:
\* a request to Google Docs, a markdown fallback file.
output_drafts(dry_run, push) ==
    IF dry_run THEN <<>>
    ELSE CASE push = "pushed" -> <<"docs_request">>
           [] push = "request_failed" -> <<"docs_request", "markdown">>
           [] OTHER -> <<"markdown">>

\* The exception output_drafts ends with.
output_drafts_error(dry_run, push) ==
    IF ~dry_run /\ push = "creds_raise" THEN "RefreshError" ELSE "none"

\* ---------------------------------------------------------------- email_sender.py
\* What send_daily_digest meets: no recipient configured, no credentials (or
\* loading them raises, inside the try block), the send request succeeds, the
\* send request raises.
MailOutcomes == {"no_recipient", "no_creds", "sent", "send_failed"}

\* send_daily_digest(drafts, category_dist, dry_run): its return value and its
\* outside effects.
send_daily_digest(dry_run, mail) ==
    IF mail = "no_recipient" THEN [success |-> FALSE, effects |-> <<>>]
    ELSE IF dry_run THEN [success |-> TRUE, effects |-> <<>>]
    ELSE CASE mail = "sent" -> [success |-> TRUE, effects |-> <<"gmail_send">>]
           [] mail = "send_failed" -> [success |-> FALSE, effects |-> <<"gmail_send">>]
           [] OTHER -> [success |-> FALSE, effects |-> <<>>]

\* ---------------------------------------------------------------- main.py (helpers)
\* datetime.now().isoformat()[:10] on the weekdays of the model: a Monday
\* and a Saturday.
today(day) == IF day = 0 THEN "2026-11-09" ELSE "2026-11-07"

\* Variant of the history update that puts the new entries first.
RECURSIVE record_drafts_newest_first(_, _, _, _)
record_drafts_newest_first(h, ds, i, date) ==
    IF i > Len(ds) THEN h
    ELSE record_drafts_newest_first(
             [h EXCEPT !.posts = <<Post(date, ds[i].article.category, ds[i].persona,
                                        ds[i].article.source)>> \o @],
             ds, i + 1, date)

\* The loop `for draft in drafts: record_post(history, ...)` from draft i.
RECURSIVE record_drafts(_, _, _, _)
record_drafts(h, ds, i, date) ==
    IF i > Len(ds) THEN h
    ELSE record_drafts(record_post(h, date, ds[i].article.category, ds[i].persona,
                                   ds[i].article.source),
                       ds, i + 1, date)

\* Values of the pipeline variables outside pipeline runs.
NoArgs == [dry_run |-> FALSE, feeds_only |-> FALSE, email_only |-> FALSE, no_email |-> FALSE]
NoDelivery == [docs |-> "none", email |-> "none"]

DraftsIdle ==
    /\ drafting = <<>>
    /\ drafts = <<>>

PipeIdle ==
    /\ args = NoArgs
    /\ effects = <<>>
    /\ delivery = NoDelivery
    /\ loaded = EmptyHistory

RunIdle ==
    /\ historyFile = [state |-> "missing"]
    /\ err = "none"
    /\ DraftsIdle
    /\ PipeIdle

\* Values of the selection variables in runs that do not select.
SelectIdle ==
    /\ count = DRAFT_COUNT
    /\ weekday = 0
    /\ strict = <<>>
    /\ selected = <<>>
    /\ assignments = <<>>

\* ---------------------------------------------------------------- dedup runs
\* The article dict built by the fetcher; url is unique per fetched message.
Article(t, c, s, u, src, cat, sc) ==
    [title |-> t, content |-> c, summary |-> s, url |-> u, source |-> src,
     category |-> cat, total_score |-> sc]

DedupInputs ==
    UNION {{[i \in 1..k |-> Article(f[i][1], f[i][2][1], f[i][2][2], i, "s1", "AI", 25)] :
              f \in [1..k -> Titles \X Bodies]} : k \in 0..MaxArticles}

LoweredTitles == {lower(t) : t \in Titles}
Snippets == {lower(IF b[1] # "" THEN b[1] ELSE b[2]) : b \in Bodies} \ {""}
TitlePairs == LoweredTitles \X LoweredTitles
SnippetPairs == Snippets \X Snippets

\* Every ratio table in which a string compared with itself scores 1.0.
RatioTables ==
    {[p \in TitlePairs \cup SnippetPairs |->
        IF p[1] = p[2] THEN 100
        ELSE IF p \in TitlePairs THEN rt[p] ELSE rc[p]] :
     rt \in [TitlePairs -> TitleRatios], rc \in [SnippetPairs -> ContentRatios]}

InitDedup ==
    /\ pc = "ready"
    /\ articles \in DedupInputs
    /\ threshold \in Thresholds
    /\ ratio \in RatioTables
    /\ unique = <<>>
    /\ unique2 = <<>>
    /\ history = EmptyHistory
    /\ query = NoQuery
    /\ SelectIdle
    /\ RunIdle

Deduplicate ==
    /\ pc = "ready"
    /\ unique' = deduplicate(articles)
    /\ pc' = "deduped"
    /\ UNCHANGED <<articles, threshold, ratio, unique2, historyVars, selectVars, runVars>>

DeduplicateAgain ==
    /\ pc = "deduped"
    /\ unique2' = deduplicate(unique)
    /\ pc' = "deduped_twice"
    /\ UNCHANGED <<articles, threshold, ratio, unique, historyVars, selectVars, runVars>>

NextDedup == Deduplicate \/ DeduplicateAgain

SpecDedup == InitDedup /\ [][NextDedup]_vars

\* ---------------------------------------------------------------- dedup claims
InOutput(i) == articles[i] \in Range(unique)

SameTitle(i, j) == articles[i].title = articles[j].title

\* C3: deduplicate is idempotent: deduplicating its own output returns that
\* output unchanged (same articles, same order), for every ratio table.
C3_Idempotent == pc = "deduped_twice" => unique2 = unique

C3_Witness ==
    /\ pc = "deduped_twice"
    /\ Len(unique) >= 2
    /\ Len(unique) < Len(articles)

\* C5 (as amended): for every threshold in [0, 1], two articles with identical
\* titles are never both in the output: when the first is kept the later one is
\* discarded.
C5_NeverBothSurvive ==
    pc = "deduped" =>
        \A i, j \in DOMAIN articles :
            (i < j /\ SameTitle(i, j)) => ~(InOutput(i) /\ InOutput(j))

\* Identical titles, different bodies, threshold 1.0: the first is kept, the
\* second discarded.
C5_Witness ==
    /\ pc = "deduped"
    /\ threshold = 100
    /\ \E i, j \in DOMAIN articles :
          /\ i < j /\ SameTitle(i, j)
          /\ content_snippet(articles[i]) # content_snippet(articles[j])
          /\ InOutput(i) /\ ~InOutput(j)

\* C5 (as stated): of two articles with identical titles only the first is in
\* the output: the later one never is.
C5_OnlyFirstSurvives ==
    pc = "deduped" =>
        \A i, j \in DOMAIN articles :
            (i < j /\ SameTitle(i, j)) => ~InOutput(j)

\* The increasing enumeration of a set of positions.
RECURSIVE SortedSeq(_)
SortedSeq(S) ==
    IF S = {} THEN <<>>
    ELSE LET m == CHOOSE x \in S : \A y \in S : x <= y
         IN <<m>> \o SortedSeq(S \ {m})

\* C10: the output is an order-preserving subsequence of the input that keeps
\* the first input article; every discarded article is a duplicate of an
\* article that is earlier in the input and kept; empty input, empty output.
C10_FirstSeenWins ==
    pc = "deduped" =>
        /\ articles = <<>> => unique = <<>>
        /\ \E S \in SUBSET DOMAIN articles :
              /\ unique = [j \in 1..Cardinality(S) |-> articles[SortedSeq(S)[j]]]
              /\ articles # <<>> => 1 \in S
              /\ \A i \in DOMAIN articles \ S :
                    \E k \in S : k < i /\ is_dup_of(articles[i], articles[k])

C10_Witness ==
    /\ pc = "deduped"
    /\ Len(articles) = 3
    /\ InOutput(1) /\ ~InOutput(2) /\ InOutput(3)

\* Title similarity of the incoming article i with the article k, as a percentage.
TitleSim(i, k) == ratio[<<lower(articles[i].title), lower(articles[k].title)>>]

\* Both articles have a non-empty content snippet and the snippets are similar.
ContentMatch(i, k) ==
    /\ content_snippet(articles[i]) # ""
    /\ content_snippet(articles[k]) # ""
    /\ ratio[<<content_snippet(articles[i]), content_snippet(articles[k])>>]
          >= CONTENT_SIM_CUTOFF

\* C20: deduplicate discards an incoming article exactly when some article
\* kept before it, any of them, has title similarity >= T with it, or title
\* similarity in [T - 0.15, T) together with non-empty content snippets on
\* both sides whose similarity is >= 0.6.
C20_DiscardIffMatchesKept ==
    pc = "deduped" =>
        \A i \in DOMAIN articles :
            ~InOutput(i) <=>
                \E k \in 1..(i - 1) :
                    /\ InOutput(k)
                    /\ \/ TitleSim(i, k) >= threshold
                       \/ /\ TitleSim(i, k) >= threshold - BORDERLINE_BAND
                          /\ TitleSim(i, k) < threshold
                          /\ ContentMatch(i, k)

\* The second article is in the borderline band of the first and is kept, for
\* want of matching content; the third is discarded against the first and is
\* no duplicate of the second, the latest kept.
C20_Witness ==
    /\ pc = "deduped"
    /\ Len(articles) = 3
    /\ InOutput(1) /\ InOutput(2) /\ ~InOutput(3)
    /\ TitleSim(2, 1) >= threshold - BORDERLINE_BAND
    /\ content_snippet(articles[2]) # ""
    /\ TitleSim(3, 1) >= threshold
    /\ TitleSim(3, 2) < threshold - BORDERLINE_BAND

\* ---------------------------------------------------------------- history checks
\* <<category, persona, source>> of the history entries drawn
PostProfiles ==
    {<<"AI", "The Honest AI User", "s1">>,
     <<"Sales", "The Sales Realist", "s2">>}
PostDates == {"", "2026-11-02", "2026-11-03"}
HistoryPosts == {Post(d, f[1], f[2], f[3]) : d \in PostDates, f \in PostProfiles}
QueryCategories == {"AI", "Sales", "eCommerce"}
QuerySources == {"s1", "s2", "s3"}

IdleRatio == [p \in TitlePairs \cup SnippetPairs |-> IF p[1] = p[2] THEN 100 ELSE 40]

InitHistory ==
    /\ pc = "ready"
    /\ history \in {History(ps) : ps \in SeqsUpTo(HistoryPosts, MaxHistory)}
    /\ query = NoQuery
    /\ articles = <<>>
    /\ threshold = DEDUP_THRESHOLD
    /\ ratio = IdleRatio
    /\ unique = <<>>
    /\ unique2 = <<>>
    /\ SelectIdle
    /\ RunIdle

CheckCategoryRule ==
    /\ pc = "ready"
    /\ \E c \in QueryCategories :
          query' = [fn |-> "would_break_category_rule", arg |-> c,
                    n |-> MAX_SAME_CATEGORY_STREAK,
                    res |-> would_break_category_rule(history, c)]
    /\ pc' = "checked"
    /\ history' = history_after_get_last_n_posts(history)
    /\ UNCHANGED <<articles, dedupVars, selectVars, runVars>>

CheckPersonaRule ==
    /\ pc = "ready"
    /\ \E p \in Range(PersonaNames) :
          query' = [fn |-> "would_break_persona_rule", arg |-> p,
                    n |-> MAX_SAME_PERSONA_STREAK,
                    res |-> would_break_persona_rule(history, p)]
    /\ pc' = "checked"
    /\ history' = history_after_get_last_n_posts(history)
    /\ UNCHANGED <<articles, dedupVars, selectVars, runVars>>

CheckSourceCooldown ==
    /\ pc = "ready"
    /\ \E src \in QuerySources :
          query' = [fn |-> "is_source_on_cooldown", arg |-> src,
                    n |-> SOURCE_COOLDOWN_POSTS,
                    res |-> is_source_on_cooldown(history, src)]
    /\ pc' = "checked"
    /\ history' = history_after_get_last_n_posts(history)
    /\ UNCHANGED <<articles, dedupVars, selectVars, runVars>>

GetLastNPosts ==
    /\ pc = "ready"
    /\ \E n \in 0..SOURCE_COOLDOWN_POSTS :
          query' = [fn |-> "get_last_n_posts", arg |-> "", n |-> n,
                    res |-> get_last_n_posts(history, n)]
    /\ pc' = "checked"
    /\ history' = history_after_get_last_n_posts(history)
    /\ UNCHANGED <<articles, dedupVars, selectVars, runVars>>

NextHistory ==
    CheckCategoryRule \/ CheckPersonaRule \/ CheckSourceCooldown \/ GetLastNPosts

SpecHistory == InitHistory /\ [][NextHistory]_vars

\* C4 (as stated): would_break_category_rule is false for every category when
\* the history holds fewer than MAX_SAME_CATEGORY_STREAK entries.
C4_ShortHistoryNeverBlocks ==
    (/\ query.fn = "would_break_category_rule"
     /\ Len(history.posts) < MAX_SAME_CATEGORY_STREAK)
    => query.res = FALSE

\* Place of entry i of `posts` in the order "latest date first, equal dates in
\* stored order, no date last": one more than the number of entries before it.
DateRank(posts, i) ==
    1 + Cardinality({j \in DOMAIN posts :
                        \/ DateOrd(posts[j].date) > DateOrd(posts[i].date)
                        \/ DateOrd(posts[j].date) = DateOrd(posts[i].date) /\ j < i})

\* Positions of the (up to) n most recent entries of `posts`.
RecentWindow(posts, n) == {i \in DOMAIN posts : DateRank(posts, i) <= n}

C17_PersonaRuleIffFullWindowAllSame ==
    query.fn = "would_break_persona_rule" =>
        LET W == RecentWindow(history.posts, MAX_SAME_PERSONA_STREAK) IN
        query.res = (/\ Len(history.posts) >= MAX_SAME_PERSONA_STREAK
                     /\ \A i \in W : history.posts[i].persona = query.arg)

\* Four entries, the three most recent with the persona asked about and the
\* oldest, stored first, with another one.
C17_Witness ==
    /\ query.fn = "would_break_persona_rule"
    /\ query.res = TRUE
    /\ Len(history.posts) > MAX_SAME_PERSONA_STREAK
    /\ history.posts[1].persona # query.arg

\* C18: is_source_on_cooldown(history, source) is true exactly when one of the
\* SOURCE_COOLDOWN_POSTS most recent entries has that source, at any place
\* of the window; false on an empty history.
C18_CooldownIffInWindow ==
    query.fn = "is_source_on_cooldown" =>
        LET W == RecentWindow(history.posts, SOURCE_COOLDOWN_POSTS) IN
        query.res = (\E i \in W : history.posts[i].source = query.arg)

\* The source is on cooldown through the oldest entry of the window only,
\* with an older entry outside the window.
C18_Witness ==
    /\ query.fn = "is_source_on_cooldown"
    /\ query.res = TRUE
    /\ Len(history.posts) > SOURCE_COOLDOWN_POSTS
    /\ \A i \in RecentWindow(history.posts, SOURCE_COOLDOWN_POSTS) :
          history.posts[i].source = query.arg
          <=> DateRank(history.posts, i) = SOURCE_COOLDOWN_POSTS

\* C19: get_last_n_posts(history, n) is the first min(n, size) entries of the
\* history in the order latest date first, equal dates in stored order,
\* entries without a date after every dated entry.
C19_LastNByDateStable ==
    query.fn = "get_last_n_posts" =>
        /\ Len(query.res) = Min(query.n, Len(history.posts))
        /\ \A i \in DOMAIN history.posts :
              DateRank(history.posts, i) <= query.n
              => query.res[DateRank(history.posts, i)] = history.posts[i]

\* An entry without a date is stored first, two different entries share the
\* latest date, and the result is a proper prefix that holds both of them.
C19_Witness ==
    /\ query.fn = "get_last_n_posts"
    /\ Len(query.res) = 2
    /\ Len(history.posts) > 2
    /\ history.posts[1].date = ""
    /\ query.res[1].date = query.res[2].date
    /\ query.res[1] # query.res[2]

\* ---------------------------------------------------------------- report runs
\* Stored dates seven and six days before the run of 2026-11-09, and an entry
\* without a date; a configured category, an unconfigured one and the ""
\* that run_pipeline records for an article without category.
ReportDates == {"", "2026-11-02", "2026-11-03"}
ReportCategories == {"AI", "Sales", "Crypto", ""}
ReportPosts == {Post(d, c, "The Human", "s1") : d \in ReportDates, c \in ReportCategories}
\* Days on which the report is made; no stored date is later.
ReportDays == {"2026-11-05", "2026-11-09", "2026-11-10"}

InitReport ==
    /\ pc = "ready"
    /\ history \in {History(ps) : ps \in SeqsUpTo(ReportPosts, MaxReportHistory)}
    /\ query = NoQuery
    /\ articles = <<>>
    /\ threshold = DEDUP_THRESHOLD
    /\ ratio = IdleRatio
    /\ unique = <<>>
    /\ unique2 = <<>>
    /\ SelectIdle
    /\ RunIdle

GetCategoryDistribution ==
    /\ pc = "ready"
    /\ \E now \in ReportDays :
          query' = [fn |-> "get_category_distribution", arg |-> now,
                    n |-> HISTORY_LOOKBACK_DAYS,
                    res |-> get_category_distribution(history, now)]
    /\ pc' = "checked"
    /\ UNCHANGED <<articles, dedupVars, history, selectVars, runVars>>

NextReport == GetCategoryDistribution

SpecReport == InitReport /\ [][NextReport]_vars

\* Entry i is dated within the HISTORY_LOOKBACK_DAYS days that end with the
\* day `now`: today or one of the six days before it.
DatedWithinLookback(i, now) ==
    /\ history.posts[i].date # ""
    /\ DayNo(now) - DayNo(history.posts[i].date) \in 0..(HISTORY_LOOKBACK_DAYS - 1)

\* C24: get_category_distribution returns a mapping whose keys are exactly the
\* configured categories, each mapped to the number of history posts dated
\* within the last HISTORY_LOOKBACK_DAYS days that have this category; posts of
\* an unconfigured category are counted under no key and a category without
\* post in the window maps to 0.
C24_DistributionOverLookback ==
    query.fn = "get_category_distribution" =>
        /\ DOMAIN query.res = Range(CATEGORIES)
        /\ \A c \in Range(CATEGORIES) :
              query.res[c] = Cardinality({i \in DOMAIN history.posts :
                                             /\ DatedWithinLookback(i, query.arg)
                                             /\ history.posts[i].category = c})

\* A report on 2026-11-09 over three entries: an "AI" post of 2026-11-03 is
\* counted, an "AI" post of 2026-11-02 is too old and a "Crypto" post of
\* 2026-11-03 has no key.
C24_Witness ==
    /\ query.fn = "get_category_distribution"
    /\ query.arg = "2026-11-09"
    /\ Len(history.posts) = 3
    /\ query.res["AI"] = 1
    /\ query.res["Sales"] = 0
    /\ \E i, j, k \in DOMAIN history.posts :
          /\ history.posts[i] = Post("2026-11-03", "AI", "The Human", "s1")
          /\ history.posts[j] = Post("2026-11-02", "AI", "The Human", "s1")
          /\ history.posts[k] = Post("2026-11-03", "Crypto", "The Human", "s1")

\* ---------------------------------------------------------------- selection runs
\* Candidates differ in category, source and score only: two articles of the
\* same kind are equal dicts.
CandidateKinds ==
    {Article("t1", "", "", "u", f[2], f[1], f[3]) :
        f \in {<<"AI", "s1", 12>>, <<"AI", "s2", 10>>,
               <<"Sales", "s1", 10>>, <<"eCommerce", "s2", 12>>}}
SelectHistoryPosts ==
    {Post("2026-11-03", f[1], "The Human", f[2]) :
        f \in {<<"AI", "s1">>, <<"Sales", "s2">>}}
\* Candidate lists: the articles of a list differ, or one article is in it twice.
CandidateLists ==
    {s \in SeqsUpTo(CandidateKinds, MaxCandidates) : Cardinality(Range(s)) >= Len(s) - 1}
\* Monday (Sales x 1.3) and Saturday (no entry in the table)
Weekdays == {0, 5}

InitSelect ==
    /\ pc = "ready"
    /\ articles \in CandidateLists
    /\ history \in {History(ps) : ps \in SeqsUpTo(SelectHistoryPosts, MaxSelectHistory)}
    /\ count \in 0..MaxCount
    /\ weekday \in Weekdays
    /\ strict = <<>>
    /\ selected = <<>>
    /\ assignments = <<>>
    /\ query = NoQuery
    /\ threshold = DEDUP_THRESHOLD
    /\ ratio = IdleRatio
    /\ unique = <<>>
    /\ unique2 = <<>>
    /\ RunIdle

SelectStories ==
    /\ pc = "ready"
    /\ strict' = strict_pass(articles, history, count, weekday)
    /\ selected' = select_stories(articles, history, count, weekday)
    /\ articles' = articles_after_select_stories(articles, weekday)
    /\ history' = history_after_get_last_n_posts(history)
    /\ pc' = "selected"
    /\ UNCHANGED <<dedupVars, query, count, weekday, assignments, runVars>>

NextSelect == SelectStories

SpecSelect == InitSelect /\ [][NextSelect]_vars

Distinct(seq) == \A i, j \in DOMAIN seq : i # j => seq[i] # seq[j]

CategoriesOf(seq) == {seq[i].category : i \in DOMAIN seq}

\* C1: for pairwise-distinct candidates, any history and any N >= 0,
\* select_stories returns min(N, number of candidates) articles.
C1_ResultSize ==
    (pc = "selected" /\ Distinct(articles)) =>
        Len(selected) = Min(count, Len(articles))

\* The history constraints hold every candidate back and the second loop
\* fills the result.
C1_Witness ==
    /\ pc = "selected"
    /\ Distinct(articles)
    /\ Len(articles) > count
    /\ strict = <<>>
    /\ Len(selected) = count
    /\ count >= 2

C7_StreakBlocksStrictPass ==
    pc = "selected" =>
        LET recent == get_last_n_posts(history, MAX_SAME_CATEGORY_STREAK) IN
        \A c \in CategoriesOf(articles) :
            (/\ Len(recent) = MAX_SAME_CATEGORY_STREAK
             /\ \A i \in DOMAIN recent : recent[i].category = c)
            => /\ c \notin CategoriesOf(strict)
               /\ c \in CategoriesOf(selected) => Len(strict) < count

\* The last two entries are "AI", the first loop admits only other categories
\* and the second loop then adds an "AI" candidate.
C7_Witness ==
    /\ pc = "selected"
    /\ Len(history.posts) = MAX_SAME_CATEGORY_STREAK
    /\ \A i \in DOMAIN history.posts : history.posts[i].category = "AI"
    /\ strict # <<>>
    /\ "AI" \notin CategoriesOf(strict)
    /\ "AI" \in CategoriesOf(selected)

\* The articles of `seq` at the positions S, in the order of `seq`.
Pick(seq, S) == [j \in 1..Cardinality(S) |-> seq[SortedSeq(S)[j]]]

\* The two history conditions per ranking position: would_break_category_rule
\* is false for the category and is_source_on_cooldown is false for the source.
HistoryAllows(scored) ==
    [i \in DOMAIN scored |->
        /\ ~would_break_category_rule(history, scored[i].category)
        /\ ~is_source_on_cooldown(history, scored[i].source)]

\* The four admission conditions of the first loop for position i of the
\* ranking, given the positions admitted before it.
Admissible(scored, allows, i, before) ==
    /\ Cardinality(before) < count
    /\ \/ scored[i].category \notin {scored[k].category : k \in before}
       \/ Cardinality(before) = count - 1
    /\ allows[i]

\* The set of ranking positions the first loop admitted: the one set in which
\* a position lies exactly when it is admissible after the members before it.
StrictAdmitted(scored, allows, S) ==
    \A i \in DOMAIN scored : i \in S <=> Admissible(scored, allows, i, {k \in S : k < i})

\* C21: in the first loop of select_stories, scanning the candidates in ranking
\* order, a candidate is admitted if and only if the result has fewer than N
\* articles, its category is not yet in the result unless the result holds
\* exactly N - 1 articles, would_break_category_rule is false for its category
\* and is_source_on_cooldown is false for its source.
C21_StrictAdmitIff ==
    pc = "selected" =>
        LET scored == ranked(articles, weekday)
            allows == HistoryAllows(scored)
        IN \E S \in SUBSET DOMAIN scored :
              /\ StrictAdmitted(scored, allows, S)
              /\ strict = Pick(scored, S)

\* Three slots: the second candidate of the ranking repeats the category of
\* the first and is passed over, and the last slot goes to a repeated category.
C21_Witness ==
    /\ pc = "selected"
    /\ count = 3
    /\ Len(strict) = 3
    /\ strict[3].category \in {strict[1].category, strict[2].category}
    /\ LET scored == ranked(articles, weekday) IN
       /\ scored[2].category = scored[1].category
       /\ strict[2].category # strict[1].category

\* total_score x weight of candidate i on the weekday of the run, in tenths;
\* the weight is 1.0 where the table has no entry.
Weighted(i) == articles[i].total_score * DAY_TOPIC_WEIGHTS(weekday, articles[i].category)

\* Place of candidate i in the ranking: one more than the number of candidates
\* with a higher weighted score, or with the same one and earlier in the input.
ScoreRank(i) ==
    1 + Cardinality({j \in DOMAIN articles :
                        \/ Weighted(j) > Weighted(i)
                        \/ Weighted(j) = Weighted(i) /\ j < i})

Ranking ==
    [r \in DOMAIN articles |-> articles[CHOOSE i \in DOMAIN articles : ScoreRank(i) = r]]

\* Ranking positions open to the second loop: the article is not among the
\* first-loop admissions (nor equal to an article ranked before it).
NotAdmitted(R) ==
    {i \in DOMAIN R :
        /\ R[i] \notin Range(strict)
        /\ \A k \in 1..(i - 1) : R[k] # R[i]}

\* The highest-ranked of them, as many as the result lacks.
RelaxedAdditions(R) ==
    LET open == NotAdmitted(R) IN
    {i \in open : Cardinality({k \in open : k < i}) < count - Len(strict)}

\* C22: the result of select_stories is the first-loop admissions in ranking
\* order followed by the second-loop additions in ranking order; the ranking is
\* descending total_score x weight(weekday, category), weight 1.0 without a
\* table entry, ties in input order; the additions are the highest-ranked
\* articles the first loop did not admit, as many as needed to reach N.
C22_StrictThenRelaxedInRankingOrder ==
    pc = "selected" =>
        LET R == Ranking IN
        /\ \E S \in SUBSET DOMAIN R : strict = Pick(R, S)
        /\ selected = strict \o Pick(R, RelaxedAdditions(R))

\* A Monday: two candidates tie, the first loop admits one article and the
\* second loop adds two of the three that are left, the weight putting the one
\* with the lower total_score first.
C22_Witness ==
    /\ pc = "selected"
    /\ weekday = 0
    /\ Distinct(articles)
    /\ Len(articles) = 4
    /\ count = 3
    /\ Len(strict) = 1
    /\ Len(selected) = 3
    /\ selected[2].total_score < selected[3].total_score
    /\ \E i, j \in DOMAIN articles : i # j /\ Weighted(i) = Weighted(j)

\* C28: the articles admitted by the first loop of select_stories repeat a
\* category at most once and only in the last slot: the first N - 1 admitted
\* have pairwise distinct categories, and when the loop admits fewer than N
\* all of its admissions have pairwise distinct categories.
C28_StrictRepeatsOnlyInLastSlot ==
    pc = "selected" =>
        /\ \A i, j \in DOMAIN strict :
              (i # j /\ i <= count - 1 /\ j <= count - 1)
              => strict[i].category # strict[j].category
        /\ Len(strict) < count =>
              \A i, j \in DOMAIN strict : i # j => strict[i].category # strict[j].category

\* Two slots, both taken by one category in the first loop, while a candidate
\* of another category is left out.
C28_Witness ==
    /\ pc = "selected"
    /\ count = 2
    /\ Len(strict) = 2
    /\ strict[1].category = strict[2].category
    /\ CategoriesOf(articles) \ CategoriesOf(strict) # {}

\* C30: for pairwise-distinct candidates, any history and any N, every article
\* select_stories returns is one of the candidates and no candidate is in the
\* result more than once, the two loops taken together.
C30_ResultFromCandidatesNoRepeat ==
    (pc = "selected" /\ Distinct(articles)) =>
        /\ Range(selected) \subseteq Range(articles)
        /\ Distinct(selected)

\* The first loop admits some of the result, the second loop adds the rest,
\* and one candidate is left out.
C30_Witness ==
    /\ pc = "selected"
    /\ Distinct(articles)
    /\ Len(strict) >= 1
    /\ Len(selected) >= Len(strict) + 2
    /\ Len(selected) < Len(articles)

\* ---------------------------------------------------------------- persona runs
\* Batch articles differ in category only: "Sales" is the first preference of
\* one persona and a later one of another, "AI in eCommerce" a later preference
\* of two, and "" (an article without category) a preference of none.
BatchKinds == {Article("t1", "", "", "u", "s1", c, 25) : c \in {"Sales", "AI in eCommerce", ""}}
PersonaHistoryPosts ==
    {Post("2026-11-03", "AI", p, "s1") :
        p \in {"The eCommerce Observer", "The Honest AI User"}}

InitPersona ==
    /\ pc = "ready"
    /\ selected \in SeqsUpTo(BatchKinds, MaxBatch)
    /\ history \in {History(ps) : ps \in SeqsUpTo(PersonaHistoryPosts, MaxPersonaHistory)}
    /\ assignments = <<>>
    /\ articles = <<>>
    /\ strict = <<>>
    /\ count = DRAFT_COUNT
    /\ weekday = 0
    /\ query = NoQuery
    /\ threshold = DEDUP_THRESHOLD
    /\ ratio = IdleRatio
    /\ unique = <<>>
    /\ unique2 = <<>>
    /\ RunIdle

AssignPersonas ==
    /\ pc = "ready"
    /\ assignments' = assign_personas(selected, history)
    /\ pc' = "assigned"
    /\ UNCHANGED <<articles, dedupVars, historyVars, count, weekday, strict, selected, runVars>>

NextPersona == AssignPersonas

SpecPersona == InitPersona /\ [][NextPersona]_vars

\* C2: in a batch no larger than the persona set, no persona is assigned to
\* two articles.
C2_NoRepeatWithinBatch ==
    (pc = "assigned" /\ Len(selected) <= Len(PersonaNames)) =>
        \A i, j \in DOMAIN assignments : i # j => assignments[i] # assignments[j]

\* A batch of four with one persona streak-blocked: the blocked persona is
\* the only one left for the fourth article.
C2_Witness ==
    /\ pc = "assigned"
    /\ Len(selected) = Len(PersonaNames)
    /\ \E p \in Range(PersonaNames) :
          /\ would_break_persona_rule(history, p)
          /\ assignments[Len(PersonaNames)] = p

\* C8: assign_personas returns one persona per article, each a configured
\* persona name, for every history and batch.
C8_OnePersonaPerArticle ==
    pc = "assigned" =>
        /\ Len(assignments) = Len(selected)
        /\ \A i \in DOMAIN assignments : assignments[i] \in Range(PersonaNames)

\* A batch of five with a streak-blocked persona: both fallbacks are taken.
C8_Witness ==
    /\ pc = "assigned"
    /\ Len(selected) = Len(PersonaNames) + 1
    /\ \E p \in Range(PersonaNames) : would_break_persona_rule(history, p)
    /\ assignments[Len(PersonaNames) + 1] = PersonaNames[1]

\* Personas given to the articles before article i of the batch.
UsedBefore(i) == {assignments[j] : j \in 1..(i - 1)}

\* Declared positions of the personas open to article i: not yet used in the
\* batch and not streak-blocked.
Qualifying(i) ==
    {k \in DOMAIN PersonaNames :
        /\ PersonaNames[k] \notin UsedBefore(i)
        /\ ~would_break_persona_rule(history, PersonaNames[k])}

\* Declared positions of the personas not yet used before article i.
Unused(i) == {k \in DOMAIN PersonaNames : PersonaNames[k] \notin UsedBefore(i)}

\* 3 if the category is the first preferred category of persona k, 2 if it is
\* elsewhere in the list, 0 otherwise.
Affinity(k, category) ==
    LET preferred == PERSONAS[PersonaNames[k]] IN
    IF preferred[1] = category THEN 3
    ELSE IF \E j \in 2..Len(preferred) : preferred[j] = category THEN 2
    ELSE 0

\* C23: for each article in batch order, assign_personas picks, among the
\* personas not yet used in the batch and not streak-blocked, the one with the
\* highest affinity, ties going to the earliest declared; if there is none,
\* the first declared persona not yet used; if all are used, the first
\* declared persona.
C23_PersonaChoice ==
    pc = "assigned" =>
        \A i \in DOMAIN selected :
            LET Q == Qualifying(i)
                U == Unused(i)
                c == selected[i].category
            IN IF Q # {}
                 THEN \E k \in Q :
                         /\ assignments[i] = PersonaNames[k]
                         /\ \A j \in Q : Affinity(j, c) <= Affinity(k, c)
                         /\ \A j \in Q : Affinity(j, c) = Affinity(k, c) => k <= j
               ELSE IF U # {}
                 THEN \E k \in U : assignments[i] = PersonaNames[k] /\ \A j \in U : k <= j
               ELSE assignments[i] = PersonaNames[1]

\* A batch of five with "The Honest AI User" streak-blocked: the second
\* article has no category and goes to the earlier of two personas tied at
\* affinity 0, the third goes to a persona through a later preference, the
\* fourth to the blocked persona and the fifth to the first declared one.
C23_Witness ==
    /\ pc = "assigned"
    /\ Len(selected) = 5
    /\ would_break_persona_rule(history, "The Honest AI User")
    /\ selected[2].category = ""
    /\ assignments[2] = "The Sales Realist"
    /\ selected[3].category = "Sales"
    /\ assignments[3] = "The Human"
    /\ assignments[4] = "The Honest AI User"
    /\ assignments[5] = PersonaNames[1]

\* C29: assign_personas gives an article a persona that triggers the
\* persona-streak check only when every persona that does not trigger it was
\* given to an earlier article of the batch; with the four configured
\* personas, the first article of a batch never gets a streak-blocked persona.
C29_BlockedPersonaOnlyAsLastResort ==
    pc = "assigned" =>
        /\ \A i \in DOMAIN assignments :
              would_break_persona_rule(history, assignments[i]) =>
                  \A p \in Range(PersonaNames) :
                      ~would_break_persona_rule(history, p) => p \in UsedBefore(i)
        /\ assignments # <<>> => ~would_break_persona_rule(history, assignments[1])

\* "The eCommerce Observer" is streak-blocked: the first article, whose
\* category it would win, goes to the next persona with that affinity, and the
\* blocked persona comes only fourth, after the three others.
C29_Witness ==
    /\ pc = "assigned"
    /\ would_break_persona_rule(history, "The eCommerce Observer")
    /\ Len(selected) >= 4
    /\ selected[1].category = "AI in eCommerce"
    /\ assignments[1] = "The Honest AI User"
    /\ assignments[4] = "The eCommerce Observer"

\* ---------------------------------------------------------------- drafting runs
\* Selected articles are distinct messages (url is the position); "Sales" has
\* a preferred persona, "" has none.
DraftBatches ==
    UNION {{[i \in 1..k |-> Article("t1", "", "", i, "s1", c[i], 25)] :
              c \in [1..k -> {"Sales", ""}]} : k \in 0..MaxDrafted}
\* Histories that block no persona, or "The Sales Realist" from three entries on.
DraftHistoryPosts == {Post("2026-11-03", "Sales", "The Sales Realist", "s2")}

InitDrafts ==
    /\ pc = "ready"
    /\ selected \in DraftBatches
    /\ history \in {History(ps) : ps \in SeqsUpTo(DraftHistoryPosts, MaxPersonaHistory)}
    /\ assignments = <<>>
    /\ articles = <<>>
    /\ strict = <<>>
    /\ count = DRAFT_COUNT
    /\ weekday = 0
    /\ query = NoQuery
    /\ threshold = DEDUP_THRESHOLD
    /\ ratio = IdleRatio
    /\ unique = <<>>
    /\ unique2 = <<>>
    /\ RunIdle

GenerateDrafts ==
    /\ pc = "assigned"
    /\ \E ok \in [DOMAIN selected -> BOOLEAN] :
          /\ drafting' = ok
          /\ drafts' = generate_drafts(selected, assignments, ok)
    /\ pc' = "drafted"
    /\ UNCHANGED <<articles, dedupVars, historyVars, selectVars, historyFile, err, pipeVars>>

NextDrafts == AssignPersonas \/ GenerateDrafts

SpecDrafts == InitDrafts /\ [][NextDrafts]_vars

\* C14: whichever drafting calls raise, generate_drafts returns the drafts of
\* exactly the articles whose call returned, in selection order, each with
\* the persona assign_personas gave to that article.
C14_DraftsOfSucceededInOrder ==
    pc = "drafted" =>
        LET S == {i \in DOMAIN selected : drafting[i]} IN
        /\ Len(drafts) = Cardinality(S)
        /\ \A j \in DOMAIN drafts :
              /\ drafts[j].article = selected[SortedSeq(S)[j]]
              /\ drafts[j].persona = assignments[SortedSeq(S)[j]]

\* The first call raises and later ones return: the first draft belongs to a
\* later article and carries that article's persona, not the first persona.
C14_Witness ==
    /\ pc = "drafted"
    /\ Len(selected) >= 3
    /\ ~drafting[1]
    /\ Len(drafts) >= 2
    /\ drafts[1].persona # assignments[1]

\* ---------------------------------------------------------------- repeated runs
\* Scored candidates of a run: distinct messages (url is the position) of three
\* kinds, all with the score 25, so that the input order is the ranking on a
\* Saturday and "Sales" comes first on a Monday.
RunCandidateKinds == {<<"AI", "s1">>, <<"Sales", "s2">>, <<"Sales", "s3">>}
RunCandidateLists ==
    UNION {{[i \in 1..k |-> Article("t1", "", "", i, f[i][2], f[i][1], 25)] :
              f \in [1..k -> RunCandidateKinds]} : k \in 1..MaxRunCandidates}

\* The history file does not exist yet; the first run is on a Saturday or on
\* the Monday after it.
InitRuns ==
    /\ pc = "ready"
    /\ weekday \in Weekdays
    /\ articles = <<>>
    /\ history = EmptyHistory
    /\ query = NoQuery
    /\ count = DRAFT_COUNT
    /\ strict = <<>>
    /\ selected = <<>>
    /\ assignments = <<>>
    /\ threshold = DEDUP_THRESHOLD
    /\ ratio = IdleRatio
    /\ unique = <<>>
    /\ unique2 = <<>>
    /\ RunIdle

\* One run of run_pipeline without flags in which every drafting call returns
\* and no step raises: the history is loaded, DRAFT_COUNT stories are selected,
\* personas assigned, every draft is recorded under the date of the run and the
\* history is saved. The outside effects of the output steps are those of Spec.
PipelineRun ==
    /\ pc \in {"ready", "done"}
    /\ Len(load_history(historyFile).posts) <= MaxRunHistory
    /\ \E arts \in RunCandidateLists :
          LET h == load_history(historyFile)
              sel == select_stories(arts, h, DRAFT_COUNT, weekday)
              per == assign_personas(sel, h)
              ds == generate_drafts(sel, per, [i \in DOMAIN sel |-> TRUE])
              h2 == record_drafts(h, ds, 1, today(weekday))
          IN /\ articles' = arts
             /\ loaded' = h
             /\ strict' = strict_pass(arts, h, DRAFT_COUNT, weekday)
             /\ selected' = sel
             /\ assignments' = per
             /\ drafting' = [i \in DOMAIN sel |-> TRUE]
             /\ drafts' = ds
             /\ history' = h2
             /\ historyFile' = save_history(h2)
    /\ pc' = "done"
    /\ UNCHANGED <<dedupVars, query, count, weekday, err, args, effects, delivery>>

\* Time passes between two runs: from the Saturday to the Monday.
NextDay ==
    /\ pc \in {"ready", "done"}
    /\ weekday = 5
    /\ weekday' = 0
    /\ UNCHANGED <<pc, articles, dedupVars, historyVars, count, strict, selected,
                   assignments, runVars>>

NextRuns == PipelineRun \/ NextDay

SpecRuns == InitRuns /\ [][NextRuns]_vars

\* The history on disk, in recorded order.
Recorded == load_history(historyFile).posts

\* C25 (as stated): after any sequence of non-dry runs from an empty history,
\* every selected article drafted, the history never holds more than
\* MAX_SAME_CATEGORY_STREAK consecutive entries, in recorded order, of the
\* same category.
C25_NoLongCategoryStreak ==
    \A i \in DOMAIN Recorded :
        i + MAX_SAME_CATEGORY_STREAK <= Len(Recorded) =>
            \E j \in 1..MAX_SAME_CATEGORY_STREAK :
                Recorded[i + j].category # Recorded[i].category

\* Number of places at which `seq` holds the value v.
Occurrences(seq, v) == Cardinality({i \in DOMAIN seq : seq[i] = v})

\* C26 (as stated): on a history appended by run_pipeline (dates non-decreasing
\* in recorded order, the entries of one run under one date),
\* get_last_n_posts(history, n) holds the n most recently appended posts, for
\* the window sizes of the streak and cooldown checks.
C26_LastNAreLatestAppended ==
    \A n \in {MAX_SAME_CATEGORY_STREAK, MAX_SAME_PERSONA_STREAK, SOURCE_COOLDOWN_POSTS} :
        LET m == Min(n, Len(Recorded))
            latest == SubSeq(Recorded, Len(Recorded) - m + 1, Len(Recorded))
            last_n == get_last_n_posts(History(Recorded), n)
        IN \A v \in Range(Recorded) : Occurrences(last_n, v) = Occurrences(latest, v)

\* ---------------------------------------------------------------- main.py
\* Parsed documents that are JSON but hold no list of posts: {}, [] or null,
\* {"posts": null}.
MalformedDocuments ==
    {[kind |-> k, posts |-> <<>>] : k \in {"no_posts_key", "not_object", "posts_not_list"}}

HistoryDocuments ==
    {[state |-> st, value |-> EmptyHistory] : st \in {"missing", "not_json"}}
    \cup {[state |-> "json", value |-> v] :
            v \in MalformedDocuments
                  \cup {History(ps) : ps \in SeqsUpTo(SelectHistoryPosts, MaxSelectHistory)}}

\* Fetched messages: raw subject and newsletter name; url is the message id.
FetchedInputs ==
    UNION {{[i \in 1..k |-> Article(f[i][1], "", "", i, f[i][2], "", 0)] :
              f \in [1..k -> {<<"<b>t1</b>", "s1">>, <<" t2 ", "s2">>}]} :
           k \in 0..MaxFetched}

\* <<category, total_score>> the categoriser can give an article
CategoriseResults == {<<"AI", 25>>, <<"Sales", 30>>}

\* The flags argparse hands to main.
ArgSets == [dry_run : BOOLEAN, feeds_only : BOOLEAN, email_only : BOOLEAN, no_email : BOOLEAN]

Init ==
    /\ pc = "main"
    /\ historyFile \in HistoryDocuments
    /\ weekday \in Weekdays
    /\ err = "none"
    /\ articles = <<>>
    /\ history = EmptyHistory
    /\ query = NoQuery
    /\ count = DRAFT_COUNT
    /\ strict = <<>>
    /\ selected = <<>>
    /\ assignments = <<>>
    /\ threshold = DEDUP_THRESHOLD
    /\ ratio = IdleRatio
    /\ unique = <<>>
    /\ unique2 = <<>>
    /\ DraftsIdle
    /\ PipeIdle

\* main: parse the flags; --email-only with --no-email ends in parser.error.
ParseArgs ==
    /\ pc = "main"
    /\ \E a \in ArgSets :
          /\ args' = a
          /\ pc' = IF a.email_only /\ a.no_email THEN "exit" ELSE "start"
          /\ err' = IF a.email_only /\ a.no_email THEN "UsageError" ELSE err
    /\ UNCHANGED <<articles, dedupVars, historyVars, selectVars, historyFile, draftVars,
                   effects, delivery, loaded>>

\* Step 1: fetch_all_newsletters; no article ends the run with sys.exit(1).
FetchNewsletters ==
    /\ pc = "start"
    /\ \E arts \in FetchedInputs :
          /\ articles' = arts
          /\ pc' = IF arts = <<>> THEN "exit" ELSE "fetched"
          /\ err' = IF arts = <<>> THEN "SystemExit" ELSE err
    /\ UNCHANGED <<dedupVars, historyVars, selectVars, historyFile, draftVars, pipeVars>>

\* Step 2: process_articles; with --feeds-only the run lists the articles and returns.
ProcessArticles ==
    /\ pc = "fetched"
    /\ articles' = process_articles(articles)
    /\ pc' = IF args.feeds_only THEN "done" ELSE "processed"
    /\ UNCHANGED <<dedupVars, historyVars, selectVars, runVars>>

\* Step 3: categorise_and_score labels every article and sorts by total_score.
CategoriseAndScore ==
    /\ pc = "processed"
    /\ \E r \in [DOMAIN articles -> CategoriseResults] :
          LET labelled == [i \in DOMAIN articles |->
                              [articles[i] EXCEPT !.category = r[i][1],
                                                  !.total_score = r[i][2]]]
          IN articles' = sorted_desc(labelled,
                                     [i \in DOMAIN labelled |-> labelled[i].total_score])
    /\ pc' = "scored"
    /\ UNCHANGED <<dedupVars, historyVars, selectVars, runVars>>

\* Step 4: history = load_history()
LoadHistory ==
    /\ pc = "scored"
    /\ history' = load_history(historyFile)
    /\ loaded' = load_history(historyFile)
    /\ effects' = Append(effects, "load_history")
    /\ pc' = "loaded"
    /\ UNCHANGED <<articles, dedupVars, query, selectVars, historyFile, err, draftVars,
                   args, delivery>>

\* Step 4: selected = select_stories(articles, history)
RunSelectStories ==
    /\ pc = "loaded"
    /\ LET e == select_stories_error(articles, history, count) IN
       IF e # "none"
         THEN /\ pc' = "raised"
              /\ err' = e
              /\ UNCHANGED <<strict, selected>>
         ELSE /\ pc' = "selected"
              /\ strict' = strict_pass(articles, history, count, weekday)
              /\ selected' = select_stories(articles, history, count, weekday)
              /\ UNCHANGED err
    /\ UNCHANGED <<articles, dedupVars, historyVars, count, weekday, assignments,
                   historyFile, draftVars, pipeVars>>

\* Step 4: personas = assign_personas(selected, history)
RunAssignPersonas ==
    /\ pc = "selected"
    /\ assignments' = assign_personas(selected, history)
    /\ history' = history_after_get_last_n_posts(history)
    /\ pc' = "assigned"
    /\ UNCHANGED <<articles, dedupVars, query, count, weekday, strict, selected, runVars>>

\* Step 5: drafts = generate_drafts(selected, personas); no draft ends the
\* run with sys.exit(1).
RunGenerateDrafts ==
    /\ pc = "assigned"
    /\ \E ok \in [DOMAIN selected -> BOOLEAN] :
          LET ds == generate_drafts(selected, assignments, ok) IN
          /\ drafting' = ok
          /\ drafts' = ds
          /\ pc' = IF ds = <<>> THEN "exit" ELSE "drafted"
          /\ err' = IF ds = <<>> THEN "SystemExit" ELSE err
    /\ UNCHANGED <<articles, dedupVars, historyVars, selectVars, historyFile, pipeVars>>

\* Step 6: output_drafts(drafts, category_dist, dry_run) unless --email-only;
\* category_dist is read from the history and only printed.
OutputDrafts ==
    /\ pc = "drafted"
    /\ IF args.email_only
         THEN /\ delivery' = [delivery EXCEPT !.docs = "skipped"]
              /\ pc' = "output"
              /\ UNCHANGED <<effects, err>>
         ELSE \E push \in PushOutcomes :
                 IF output_drafts_error(args.dry_run, push) # "none"
                   THEN /\ pc' = "raised"
                        /\ err' = output_drafts_error(args.dry_run, push)
                        /\ UNCHANGED <<effects, delivery>>
                   ELSE /\ effects' = effects \o output_drafts(args.dry_run, push)
                        /\ delivery' = [delivery EXCEPT !.docs =
                                           IF args.dry_run THEN "printed"
                                           ELSE IF push = "pushed" THEN "pushed"
                                           ELSE "fallback"]
                        /\ pc' = "output"
                        /\ UNCHANGED err
    /\ UNCHANGED <<articles, dedupVars, historyVars, selectVars, historyFile, draftVars,
                   args, loaded>>

\* Step 7: send_daily_digest(drafts, category_dist, dry_run) unless --no-email
SendDigest ==
    /\ pc = "output"
    /\ IF args.no_email
         THEN /\ delivery' = [delivery EXCEPT !.email = "skipped"]
              /\ UNCHANGED effects
         ELSE \E mail \in MailOutcomes :
                 LET r == send_daily_digest(args.dry_run, mail) IN
                 /\ effects' = effects \o r.effects
                 /\ delivery' = [delivery EXCEPT !.email =
                                    IF r.success THEN "success" ELSE "failed"]
    /\ pc' = "emailed"
    /\ UNCHANGED <<articles, dedupVars, historyVars, selectVars, historyFile, err, draftVars,
                   args, loaded>>

\* The end of run_pipeline: return in email-only mode; otherwise, unless it is
\* a dry run, record every draft and save the history.
UpdateHistory ==
    /\ pc = "emailed"
    /\ IF ~args.email_only /\ ~args.dry_run
         THEN /\ history' = record_drafts(history, drafts, 1, today(weekday))
              /\ historyFile' = save_history(history')
              /\ effects' = Append(effects, "save_history")
         ELSE UNCHANGED <<history, historyFile, effects>>
    /\ pc' = "done"
    /\ UNCHANGED <<articles, dedupVars, query, selectVars, err, draftVars, args, delivery, loaded>>

Next ==
    \/ ParseArgs
    \/ FetchNewsletters
    \/ ProcessArticles
    \/ CategoriseAndScore
    \/ LoadHistory
    \/ RunSelectStories
    \/ RunAssignPersonas
    \/ RunGenerateDrafts
    \/ OutputDrafts
    \/ SendDigest
    \/ UpdateHistory

Spec == Init /\ [][Next]_vars

\* C9 (as stated): whatever the history document holds (missing, not JSON, or
\* JSON without a well-formed list of posts), loading it and selecting never
\* raises.
C9_HistoryNeverFatal == ~(pc = "raised" /\ err \in {"KeyError", "TypeError"})

Did(e) == \E i \in DOMAIN effects : effects[i] = e

Times(e) == Cardinality({i \in DOMAIN effects : effects[i] = e})

\* C11: in a dry run no request goes to Google Docs, no markdown fallback file
\* is written, no email goes out through Gmail and the history file is not
\* written, at any point of the run.
C11_DryRunTouchesNothing ==
    args.dry_run =>
        /\ \A i \in DOMAIN effects : effects[i] = "load_history"
        /\ Did("load_history") => load_history(historyFile) = loaded

\* A dry run with both output steps active that reaches its end with drafts.
C11_Witness ==
    /\ pc = "done"
    /\ args.dry_run /\ ~args.email_only /\ ~args.no_email /\ ~args.feeds_only
    /\ delivery.docs = "printed"
    /\ delivery.email = "success"
    /\ Len(drafts) >= 2

\* C12 (as stated): the history gains no entry in a run whose Google Docs push
\* and email send both failed.
C12_NoRecordWhenBothFailed ==
    ~(Did("save_history") /\ delivery.docs = "fallback" /\ delivery.email = "failed")

\* C12 (as amended): the history is written only at the end of the run, after
\* output_drafts has pushed the drafts to Google Docs or, the push having
\* failed, written them to the markdown fallback file, and after the email
\* step has run or was skipped; a failed email does not hold the entry back.
C12_RecordedAfterOutputSteps ==
    Did("save_history") =>
        /\ pc = "done"
        /\ effects[Len(effects)] = "save_history"
        /\ \/ delivery.docs = "pushed" /\ Did("docs_request") /\ ~Did("markdown")
           \/ delivery.docs = "fallback" /\ Did("markdown")
        /\ delivery.email \in {"success", "failed", "skipped"}

\* The push failed, the email failed, and the drafts are in the history.
C12_Witness ==
    /\ Did("save_history")
    /\ delivery.docs = "fallback"
    /\ delivery.email = "failed"
    /\ Len(historyFile.value.posts) = Len(loaded.posts) + Len(drafts)

\* The history entries of the drafts of the run, in draft order.
DraftEntries ==
    [j \in DOMAIN drafts |->
        Post(today(weekday), drafts[j].article.category, drafts[j].persona,
             drafts[j].article.source)]

\* C13: the history is loaded once, before selection, and saved at most once,
\* as the last thing the run does; until the save the file holds what was
\* loaded, and the saved document is the loaded one with one entry per draft
\* appended in draft order, every earlier entry in its place.
C13_LoadOnceSaveOnceAppendOnly ==
    /\ Times("load_history") <= 1
    /\ Times("save_history") <= 1
    /\ pc \in {"selected", "assigned", "drafted", "output", "emailed"} =>
          effects[1] = "load_history"
    /\ (Did("load_history") /\ ~Did("save_history")) => load_history(historyFile) = loaded
    /\ Did("save_history") =>
          /\ pc = "done"
          /\ effects[1] = "load_history"
          /\ effects[Len(effects)] = "save_history"
          /\ delivery.docs # "none" /\ delivery.email # "none"
          /\ historyFile = [state |-> "json",
                            value |-> [loaded EXCEPT !.posts = @ \o DraftEntries]]

\* A stored history of two entries, two drafts, and the saved document holds
\* the four entries.
C13_Witness ==
    /\ Did("save_history")
    /\ Len(loaded.posts) = 2
    /\ Len(drafts) = 2
    /\ drafts[1].persona # drafts[2].persona
    /\ Len(historyFile.value.posts) = 4

\* C15 (as stated): at the end of a run the history file has been written
\* exactly when the run is not dry-run, not email-only and not feeds-only, an
\* article was fetched and a draft was generated.
C15_HistoryWrittenIff ==
    pc \in {"done", "exit", "raised"} =>
        (Did("save_history") <=>
            /\ ~args.dry_run /\ ~args.email_only /\ ~args.feeds_only
            /\ articles # <<>>
            /\ drafts # <<>>)

\* ---------------------------------------------------------------- calls of the engine
\* Pairwise-distinct candidates and histories whose stored order is not the
\* date order; the engine's functions are called on them one after another.
FrameHistoryPosts ==
    {Post("2026-11-02", "AI", "The Human", "s2"), Post("2026-11-03", "Sales", "The Human", "s2")}

InitFrame ==
    /\ pc = "ready"
    /\ articles \in {s \in CandidateLists : Distinct(s)}
    /\ history \in {History(ps) : ps \in SeqsUpTo(FrameHistoryPosts, MaxSelectHistory)}
    /\ count = MaxCount
    /\ weekday \in Weekdays
    /\ strict = <<>>
    /\ selected = <<>>
    /\ assignments = <<>>
    /\ query = NoQuery
    /\ threshold = DEDUP_THRESHOLD
    /\ ratio = IdleRatio
    /\ unique = <<>>
    /\ unique2 = <<>>
    /\ RunIdle

NextFrame ==
    \/ SelectStories
    \/ RunAssignPersonas
    \/ CheckCategoryRule
    \/ CheckPersonaRule
    \/ CheckSourceCooldown
    \/ GetLastNPosts

SpecFrame == InitFrame /\ [][NextFrame]_vars

====
